---- MODULE Spec2Model ----
(***************************************************************************)
(* Spring-bone secondary animation of babylon-vrm-loader:                  *)
(*   SpringBoneController  (src/secondary-animation/spring-bone-controller) *)
(*   VRMSpringBoneLogic    (src/secondary-animation/vrm-spring-bone-logic)  *)
(*   VRMManager.update     (vrm-manager)                                    *)
(*                                                                         *)
(* Numbers.  A JavaScript number is modelled as a fixed-point value with   *)
(* Scale units per 1.0 (one unit = 1 mm for lengths), plus the three       *)
(* non-finite IEEE values NaN, +Infinity and -Infinity, which are kept as  *)
(* sentinels above every finite magnitude the model reaches.  Arithmetic   *)
(* follows IEEE-754 on the non-finite values and rounds to the nearest     *)
(* unit on the finite ones.                                                *)
(***************************************************************************)
EXTENDS Integers, Sequences, FiniteSets, TLC

Scale == 1000

NaN == 2000000000
PosInf == 2000000001
NegInf == 2000000002

\* e, with v evaluated first.  TLC evaluates arguments on demand; a long
\* chain of pending ones exhausts its evaluation stack, so the operators
\* below take their intermediate values as arguments and order them
After(v, e) == IF v = v THEN e ELSE e

IsNaN(a) == a = NaN
IsInf(a) == a = PosInf \/ a = NegInf
IsFinite(a) == a < NaN

\* rounding division, half away from zero; d > 0
RDiv(n, d) ==
    IF n >= 0 THEN (2 * n + d) \div (2 * d)
    ELSE -((2 * (-n) + d) \div (2 * d))

RECURSIVE SqrtSearch(_, _)
\* Newton's iteration down from r >= the integer square root of n to it
SqrtSearch(n, r) ==
    IF (r + n \div r) \div 2 >= r THEN r
    ELSE SqrtSearch(n, (r + n \div r) \div 2)

\* r or r + 1, whichever is nearer to the square root of n; r * r <= n
RoundRoot(n, r) == IF n - r * r > r THEN r + 1 ELSE r

\* the square root of a non-negative integer, rounded to the nearest integer
Isqrt(n) ==
    IF n = 0 THEN 0 ELSE RoundRoot(n, SqrtSearch(n, (Scale + n \div Scale) \div 2))

\* Math.sqrt of a non-negative value in Scale * Scale units per 1.0
Sqrt(s) == IF IsNaN(s) THEN NaN ELSE IF s = PosInf THEN PosInf ELSE Isqrt(s)

FNeg(a) ==
    IF IsNaN(a) THEN NaN
    ELSE IF a = PosInf THEN NegInf
    ELSE IF a = NegInf THEN PosInf
    ELSE -a

FAdd(a, b) ==
    IF IsNaN(a) \/ IsNaN(b) THEN NaN
    ELSE IF IsInf(a) THEN (IF IsInf(b) /\ a # b THEN NaN ELSE a)
    ELSE IF IsInf(b) THEN b
    ELSE a + b

FSub(a, b) == FAdd(a, FNeg(b))

FSign(a) == IF a = PosInf THEN 1 ELSE IF a = NegInf THEN -1
            ELSE IF a > 0 THEN 1 ELSE IF a < 0 THEN -1 ELSE 0

\* the infinite (or, for 0 * Infinity, NaN) result of sign s
InfOfSign(s) == IF s = 0 THEN NaN ELSE IF s > 0 THEN PosInf ELSE NegInf

\* a * b without rescaling (the product carries Scale * Scale units per 1.0)
FMulRaw(a, b) ==
    IF IsNaN(a) \/ IsNaN(b) THEN NaN
    ELSE IF IsInf(a) \/ IsInf(b) THEN InfOfSign(FSign(a) * FSign(b))
    ELSE a * b

\* a raw product as a fixed-point value
Rescale(p) == IF IsFinite(p) THEN RDiv(p, Scale) ELSE p

\* a * b of two fixed-point values, as a fixed-point value
FMul(a, b) == Rescale(FMulRaw(a, b))

\* a / b of two fixed-point values, as a fixed-point value
FDiv(a, b) ==
    IF IsNaN(a) \/ IsNaN(b) THEN NaN
    ELSE IF IsInf(b) THEN (IF IsInf(a) THEN NaN ELSE 0)
    ELSE IF IsInf(a) THEN InfOfSign(FSign(a) * (IF b < 0 THEN -1 ELSE 1))
    ELSE IF b = 0 THEN (IF a = 0 THEN NaN ELSE IF a > 0 THEN PosInf ELSE NegInf)
    ELSE IF b > 0 THEN RDiv(a * Scale, b)
    ELSE RDiv(-(a * Scale), -b)

FLeq(a, b) ==
    IF IsNaN(a) \/ IsNaN(b) THEN FALSE
    ELSE IF a = NegInf \/ b = PosInf THEN TRUE
    ELSE IF a = PosInf \/ b = NegInf THEN FALSE
    ELSE a <= b

(***************************************************************************)
(* Vector3 and Quaternion of @babylonjs/core, on the number model above.   *)
(***************************************************************************)
Vec(a, b, c) == [x |-> a, y |-> b, z |-> c]
Zero3 == Vec(0, 0, 0)
Quat(a, b, c, d) == [x |-> a, y |-> b, z |-> c, w |-> d]
QIdentity == Quat(0, 0, 0, Scale)

VAdd(u, v) == Vec(FAdd(u.x, v.x), FAdd(u.y, v.y), FAdd(u.z, v.z))
VSub(u, v) == Vec(FSub(u.x, v.x), FSub(u.y, v.y), FSub(u.z, v.z))
VFinite(v) == IsFinite(v.x) /\ IsFinite(v.y) /\ IsFinite(v.z)

\* Vector3.lengthSquared, in Scale * Scale units per 1.0
LengthSquared(v) ==
    FAdd(FAdd(FMulRaw(v.x, v.x), FMulRaw(v.y, v.y)), FMulRaw(v.z, v.z))

\* Vector3.length: Math.sqrt of lengthSquared
Length(v) == Sqrt(LengthSquared(v))

\* digits kept below one unit when the root of a squared length s is taken
\* for a division: short vectors keep their direction
Precision(s) == IF s < 200000 THEN 100 ELSE IF s < 20000000 THEN 10 ELSE 1

\* one component c of a vector of squared length s, scaled by 1 / length
NormalizeComp(c, s) ==
    IF IsNaN(s) \/ IsNaN(c) THEN NaN
    ELSE IF s = PosInf THEN (IF IsInf(c) THEN NaN ELSE 0)
    ELSE RDiv(c * Scale * Precision(s), Isqrt(s * Precision(s) * Precision(s)))

\* Vector3.normalizeFromLength, from the squared length s: a vector of
\* length 0 (or 1) is returned as it is, any other is scaled by 1 / length
normalizeFromLength(v, s) ==
    IF s = 0 \/ s = Scale * Scale THEN v
    ELSE Vec(NormalizeComp(v.x, s), NormalizeComp(v.y, s), NormalizeComp(v.z, s))

\* Vector3.normalize
Normalize(v) == After(v, normalizeFromLength(v, LengthSquared(v)))

\* Vector3Helper.multiplyByFloat / Vector3.scale
multiplyByFloat(v, f) == Vec(FMul(v.x, f), FMul(v.y, f), FMul(v.z, f))

Dot(u, v) == FAdd(FAdd(FMul(u.x, v.x), FMul(u.y, v.y)), FMul(u.z, v.z))
Cross(u, v) ==
    Vec(FSub(FMul(u.y, v.z), FMul(u.z, v.y)),
        FSub(FMul(u.z, v.x), FMul(u.x, v.z)),
        FSub(FMul(u.x, v.y), FMul(u.y, v.x)))

\* |u - v| as a fixed-point length
Distance(u, v) == Length(VSub(u, v))

\* Quaternion.multiply: the Hamilton product p * q
QMul(p, q) ==
    Quat(FAdd(FAdd(FMul(p.w, q.x), FMul(p.x, q.w)), FSub(FMul(p.y, q.z), FMul(p.z, q.y))),
         FAdd(FAdd(FMul(p.w, q.y), FMul(p.y, q.w)), FSub(FMul(p.z, q.x), FMul(p.x, q.z))),
         FAdd(FAdd(FMul(p.w, q.z), FMul(p.z, q.w)), FSub(FMul(p.x, q.y), FMul(p.y, q.x))),
         FSub(FSub(FMul(p.w, q.w), FMul(p.x, q.x)), FAdd(FMul(p.y, q.y), FMul(p.z, q.z))))

QConjugate(q) == Quat(FNeg(q.x), FNeg(q.y), FNeg(q.z), q.w)

QLengthSquared(q) ==
    FAdd(FAdd(FMulRaw(q.x, q.x), FMulRaw(q.y, q.y)),
         FAdd(FMulRaw(q.z, q.z), FMulRaw(q.w, q.w)))

QNormalizeFromLength(q, s) ==
    IF s = 0 \/ s = Scale * Scale THEN q
    ELSE Quat(NormalizeComp(q.x, s), NormalizeComp(q.y, s),
              NormalizeComp(q.z, s), NormalizeComp(q.w, s))

\* Quaternion.normalize: a quaternion of length 0 is returned as it is
QNormalize(q) == After(q, QNormalizeFromLength(q, QLengthSquared(q)))

\* of q and -q (the same rotation), the one with w >= 0
PositiveW(q) ==
    IF IsFinite(q.w) /\ q.w < 0
    THEN Quat(FNeg(q.x), FNeg(q.y), FNeg(q.z), FNeg(q.w)) ELSE q

\* the rotation a matrix decomposition extracts: unit length, w >= 0
QCanonical(q) == PositiveW(QNormalize(q))

\* v + w t + u x t, with u the vector part and w the scalar part of q
RotateWith(q, v, t) ==
    After(t, VAdd(VAdd(v, multiplyByFloat(t, q.w)), Cross(Vec(q.x, q.y, q.z), t)))

\* QuaternionHelper.multiplyWithVector3: q * v * q^-1 for a unit q,
\* as v + w t + u x t with t = 2 (u x v)
multiplyWithVector3(q, v) ==
    After(q, RotateWith(q, v, multiplyByFloat(Cross(Vec(q.x, q.y, q.z), v), 2 * Scale)))

\* the quaternion of vector part v and scalar part w
QuatOf(v, w) == Quat(v.x, v.y, v.z, w)

\* QuaternionHelper.fromToRotation: the shortest arc taking unit vector
\* from to unit vector to, normalize(from x to, 1 + from . to)
fromToRotation(from, to) ==
    After(from, After(to,
        QNormalize(QuatOf(Cross(from, to), FAdd(Scale, Dot(from, to))))))

(***************************************************************************)
(* The scene graph the controller is given (TransformNodes of the loaded   *)
(* asset).  The hierarchy is fixed; positions and rotations are state.     *)
(*     hips -> head -> hair1 -> hair2          tail (no parent)            *)
(***************************************************************************)
NoNode == "none"
Nodes == {"hips", "head", "hair1", "hair2", "tail"}

\* TransformNode.parent
parent(n) ==
    CASE n = "head" -> "hips"
      [] n = "hair1" -> "head"
      [] n = "hair2" -> "hair1"
      [] OTHER -> NoNode

\* the first child TransformNode, NoNode at a leaf
firstChild(n) ==
    CASE n = "hips" -> "head"
      [] n = "head" -> "hair1"
      [] n = "hair1" -> "hair2"
      [] OTHER -> NoNode

\* the authored local position of each node
RestPosition(n) ==
    CASE n = "hips" -> Vec(0, 1000, 0)
      [] n = "head" -> Vec(0, 500, 0)
      [] n = "hair1" -> Vec(100, 100, 0)
      [] n = "hair2" -> Vec(0, -300, 0)
      [] OTHER -> Vec(400, 0, 300)

\* VRMManager.findTransformNode: transformNodeCache[nodeIndex] || null
NodeTable == <<"hips", "head", "hair1", "hair2", "tail">>
getBone(nodeIndex) ==
    IF nodeIndex >= 0 /\ nodeIndex < Len(NodeTable) THEN NodeTable[nodeIndex + 1]
    ELSE NoNode

VARIABLES
    ext,            \* the IVRMSecondaryAnimation configuration
    options,        \* ConstructSpringsOptions given to the constructor
    position,       \* TransformNode.position of every node
    rotationQuaternion, \* TransformNode.rotationQuaternion of every node
    colliderGroups, \* the ColliderGroup list built by constructColliderGroups
    springs,        \* SpringBoneController.springs
    verlets,        \* per spring, its VRMSpringBoneLogic list (root to leaf)
    phase,          \* "idle", "running" (update called), "resolved" (Promise.all resolved)
    deltaTime,      \* the seconds value the running update hands to every chain
    boneOptions,    \* the boneOptions of the running update
    progress,       \* per spring, how many of its spring nodes were updated this frame
    frames,         \* update calls made so far
    moves,          \* scene changes made so far by the application
    call,           \* the arguments and the pre-state of the update call in progress
    last,           \* what the VRMSpringBoneLogic.update (or the setup) just made did
    eulerOnly,      \* the nodes whose rotationQuaternion is null (rotation in Euler angles)
    disposed        \* whether SpringBoneController.dispose was called

vars == <<ext, options, position, rotationQuaternion, colliderGroups, springs, verlets,
          phase, deltaTime, boneOptions, progress, frames, moves, call, last,
          eulerOnly, disposed>>

(***************************************************************************)
(* World transforms (TransformNode.getWorldMatrix, unit scaling).          *)
(***************************************************************************)
\* the rotation of a node with local rotation local under a parent whose
\* world rotation is parentRotation
ComposeRotation(parentRotation, local) ==
    After(parentRotation, QCanonical(QMul(parentRotation, local)))

RECURSIVE AbsoluteRotation(_, _)
\* the rotation decomposed from node n's world matrix
AbsoluteRotation(rot, n) ==
    IF parent(n) = NoNode THEN QCanonical(rot[n])
    ELSE ComposeRotation(AbsoluteRotation(rot, parent(n)), rot[n])

\* VRMSpringBoneLogic.getAbsoluteRotationQuaternion: identity for a null node
getAbsoluteRotationQuaternion(rot, n) ==
    IF n = NoNode THEN QIdentity ELSE AbsoluteRotation(rot, n)

\* a local point through a world matrix of rotation q and translation t:
\* the row vector times the rotation matrix of q, plus t
TransformCoordinates(v, q, t) ==
    After(q, After(t,
    LET xx == FMul(q.x, q.x)
        yy == FMul(q.y, q.y)
        zz == FMul(q.z, q.z)
        xy == FMul(q.x, q.y)
        xz == FMul(q.x, q.z)
        yz == FMul(q.y, q.z)
        xw == FMul(q.x, q.w)
        yw == FMul(q.y, q.w)
        zw == FMul(q.z, q.w)
        Twice(a) == FAdd(a, a)
        m00 == FSub(Scale, Twice(FAdd(yy, zz)))
        m01 == Twice(FAdd(xy, zw))
        m02 == Twice(FSub(xz, yw))
        m10 == Twice(FSub(xy, zw))
        m11 == FSub(Scale, Twice(FAdd(xx, zz)))
        m12 == Twice(FAdd(yz, xw))
        m20 == Twice(FAdd(xz, yw))
        m21 == Twice(FSub(yz, xw))
        m22 == FSub(Scale, Twice(FAdd(xx, yy)))
    IN Vec(FAdd(FAdd(FAdd(FMul(v.x, m00), FMul(v.y, m10)), FMul(v.z, m20)), t.x),
           FAdd(FAdd(FAdd(FMul(v.x, m01), FMul(v.y, m11)), FMul(v.z, m21)), t.y),
           FAdd(FAdd(FAdd(FMul(v.x, m02), FMul(v.y, m12)), FMul(v.z, m22)), t.z))))

RECURSIVE getAbsolutePosition(_, _, _)
\* TransformNode.getAbsolutePosition: the translation of the world matrix
getAbsolutePosition(pos, rot, n) ==
    IF parent(n) = NoNode THEN pos[n]
    ELSE TransformCoordinates(pos[n], AbsoluteRotation(rot, parent(n)),
                              getAbsolutePosition(pos, rot, parent(n)))

(***************************************************************************)
(* Configurations and construction options the model is run on.            *)
(***************************************************************************)
\* a field that is not given (undefined)
Undefined == 2000000003

NoOptions ==
    [stiffness |-> Undefined, gravityPower |-> Undefined, gravityDir |-> <<>>,
     dragForce |-> Undefined, hitRadius |-> Undefined]

\* gravityDir is <<>> when absent and <<v>> when present
AllOptions ==
    [stiffness |-> 2000, gravityPower |-> 500, gravityDir |-> <<Vec(1000, 0, 0)>>,
     dragForce |-> 1000, hitRadius |-> 50]
ZeroOptions ==
    [stiffness |-> 0, gravityPower |-> 0, gravityDir |-> <<Zero3>>,
     dragForce |-> 0, hitRadius |-> 0]
\* one collider at the rest tail of hair1 (head + (100, -200, 0) after the
\* X/Z flip)
ColliderAtTail == [offset |-> Vec(-100, -200, 0), radius |-> 200]

HairGroup(bones, center) ==
    [comment |-> "hair", stiffiness |-> 1000, gravityPower |-> 200,
     gravityDir |-> Vec(0, -1000, 0), dragForce |-> 400, center |-> center,
     hitRadius |-> 20, bones |-> bones, colliderGroups |-> <<0>>]

\* gravity: pulled down; wind: pushed against the bone axis, no stiffness
TailGroup(wind) ==
    IF wind
    THEN [comment |-> "tail", stiffiness |-> 0, gravityPower |-> 560,
          gravityDir |-> Vec(800, 0, 600), dragForce |-> 500, center |-> -1,
          hitRadius |-> 20, bones |-> <<4>>, colliderGroups |-> <<1>>]
    ELSE [comment |-> "tail", stiffiness |-> 1000, gravityPower |-> 200,
          gravityDir |-> Vec(0, -2000, 0), dragForce |-> 500, center |-> -1,
          hitRadius |-> 20, bones |-> <<4>>, colliderGroups |-> <<1>>]

\* node index 9 resolves to no node
ExtHair ==
    [boneGroups |-> <<HairGroup(<<2>>, -1), TailGroup(FALSE)>>,
     colliderGroups |-> <<[node |-> 1, colliders |-> <<ColliderAtTail>>]>>]
ExtUnresolved ==
    [boneGroups |-> <<HairGroup(<<9, 2>>, 0), TailGroup(TRUE), HairGroup(<<9>>, -1)>>,
     colliderGroups |-> <<[node |-> 9, colliders |-> <<ColliderAtTail>>]>>]
\* a collider owned by hair2, a bone of the hair chain, placed (at rest) just
\* above the tail chain's tail, which the tail chain collides with
ColliderOnHair == [offset |-> Vec(-356, -1260, -342), radius |-> 100]
ExtShared ==
    [boneGroups |-> <<HairGroup(<<2>>, -1), TailGroup(FALSE)>>,
     colliderGroups |-> <<[node |-> 1, colliders |-> <<ColliderAtTail>>],
                          [node |-> 3, colliders |-> <<ColliderOnHair>>]>>]
\* the extension / constructor options pairs the model is run on
ConfigChoices ==
    { <<ExtHair, ZeroOptions>>, <<ExtHair, AllOptions>>, <<ExtUnresolved, NoOptions>>,
      <<ExtShared, AllOptions>> }

(***************************************************************************)
(* SpringBoneController: construction.                                     *)
(***************************************************************************)
\* faulty variant of Truthy: every given number counts, zero included
IsGiven(v) == v # Undefined

\* the JavaScript truth value of an optional number
Truthy(v) == v # Undefined /\ v # 0 /\ ~IsNaN(v)

\* Unity to Babylon coordinates: X and Z flipped
FlipXZ(v) == Vec(FNeg(v.x), v.y, FNeg(v.z))

\* faulty variant of constructColliderGroups: a group whose node does not
\* resolve is left out of the list
constructResolvedGroups(e) ==
    IF Len(e.colliderGroups) = 0 THEN <<>>
    ELSE SelectSeq([i \in 1..Len(e.colliderGroups) |->
                      [transform |-> getBone(e.colliderGroups[i].node),
                       colliders |-> [j \in 1..Len(e.colliderGroups[i].colliders) |->
                           [offset |-> FlipXZ(e.colliderGroups[i].colliders[j].offset),
                            radius |-> e.colliderGroups[i].colliders[j].radius]]]],
                   LAMBDA g : g.transform # NoNode)

constructColliderGroups(e) ==
    IF Len(e.colliderGroups) = 0 THEN <<>>
    ELSE [i \in 1..Len(e.colliderGroups) |->
            LET colliderGroup == e.colliderGroups[i]
            IN [transform |-> getBone(colliderGroup.node),
                colliders |-> [j \in 1..Len(colliderGroup.colliders) |->
                    [offset |-> FlipXZ(colliderGroup.colliders[j].offset),
                     radius |-> colliderGroup.colliders[j].radius]]]]

\* colliderGroups[g]: 0 stands for undefined (g outside the list)
ColliderGroupRef(cgs, g) == IF g >= 0 /\ g < Len(cgs) THEN g + 1 ELSE 0

constructSprings(e, cgs, opts) ==
    IF Len(e.boneGroups) = 0 THEN <<>>
    ELSE [i \in 1..Len(e.boneGroups) |->
            LET spring == e.boneGroups[i]
            IN [comment |-> spring.comment,
                stiffness |-> IF Truthy(opts.stiffness) THEN opts.stiffness
                              ELSE spring.stiffiness,
                gravityPower |-> IF Truthy(opts.gravityPower) THEN opts.gravityPower
                                 ELSE spring.gravityPower,
                gravityDir |-> IF opts.gravityDir # <<>> THEN opts.gravityDir[1]
                               ELSE Normalize(FlipXZ(spring.gravityDir)),
                dragForce |-> IF Truthy(opts.dragForce) THEN opts.dragForce
                              ELSE spring.dragForce,
                center |-> getBone(spring.center),
                hitRadius |-> IF Truthy(opts.hitRadius) THEN opts.hitRadius
                              ELSE spring.hitRadius,
                bones |-> [k \in 1..Len(spring.bones) |-> getBone(spring.bones[k])],
                colliderGroups |-> [k \in 1..Len(spring.colliderGroups) |->
                                       ColliderGroupRef(cgs, spring.colliderGroups[k])]]]

(***************************************************************************)
(* VRMSpringBone (one per bone group): building its spring nodes.          *)
(***************************************************************************)
\* length of the synthetic extension used at a leaf bone
LeafExtensionLength == 70

RECURSIVE ChainNodes(_)
\* the bones of one chain: from the root down the first child to a leaf
ChainNodes(n) ==
    IF n = NoNode THEN <<>> ELSE <<n>> \o ChainNodes(firstChild(n))

\* the rest-local position of the node's child; at a leaf a synthetic
\* extension along the bone's own direction
localChildPosition(pos, n) ==
    IF firstChild(n) # NoNode THEN pos[firstChild(n)]
    ELSE multiplyByFloat(Normalize(pos[n]), LeafExtensionLength)

\* faulty variant of getCenterTranslatedWorldPos: the stored tail is read
\* as a world position
WorldPosAsStored(centerAbsolutePos, p) == p

\* VRMSpringBoneLogic.getCenterTranslatedPos / getCenterTranslatedWorldPos
getCenterTranslatedPos(centerAbsolutePos, p) == VSub(p, centerAbsolutePos)
getCenterTranslatedWorldPos(centerAbsolutePos, p) == VAdd(centerAbsolutePos, p)

\* the absolute position of the center node, the origin without one
CenterPosition(pos, rot, center) ==
    IF center # NoNode THEN getAbsolutePosition(pos, rot, center) ELSE Zero3

\* the fields of a new VRMSpringBoneLogic, from the node's absolute position
SpringBoneLogicAt(transform, radius, centerAbsolutePos, absPos, localRotation, childPosition) ==
    After(centerAbsolutePos, After(absPos,
    [transform |-> transform,
     radius |-> radius,
     centerAbsolutePos |-> centerAbsolutePos,
     currentTail |-> getCenterTranslatedPos(centerAbsolutePos,
                                            VAdd(absPos, childPosition)),
     prevTail |-> getCenterTranslatedPos(centerAbsolutePos, VAdd(absPos, childPosition)),
     localRotation |-> localRotation,
     boneAxis |-> Normalize(childPosition),
     boneLength |-> Length(childPosition)]))

\* new VRMSpringBoneLogic(center, radius, transform, localChildPosition)
NewSpringBoneLogic(pos, rot, center, radius, transform, childPosition) ==
    SpringBoneLogicAt(transform, radius, CenterPosition(pos, rot, center),
                      getAbsolutePosition(pos, rot, transform), rot[transform],
                      childPosition)

RECURSIVE ActiveBones(_)
\* the root bones that resolved to a node
ActiveBones(bones) ==
    IF bones = <<>> THEN <<>>
    ELSE IF Head(bones) = NoNode THEN ActiveBones(Tail(bones))
    ELSE <<Head(bones)>> \o ActiveBones(Tail(bones))

RECURSIVE SpringNodes(_)
\* every bone of every resolved root's chain, root to leaf
SpringNodes(roots) ==
    IF roots = <<>> THEN <<>>
    ELSE ChainNodes(Head(roots)) \o SpringNodes(Tail(roots))

\* VRMSpringBone.setup: one VRMSpringBoneLogic per bone of the group's chains,
\* initialised from the nodes' current transforms
SpringSetup(spring, pos, rot) ==
    LET nodes == SpringNodes(ActiveBones(spring.bones))
    IN [k \in 1..Len(nodes) |->
          NewSpringBoneLogic(pos, rot, spring.center, spring.hitRadius, nodes[k],
                             localChildPosition(pos, nodes[k]))]

\* the nodes the asset gives a rotation in Euler angles only
\* (rotationQuaternion null)
AuthoredEulerOnly == {"hips", "head"}

\* the bones a spring has a VRMSpringBoneLogic for
SpringTransforms(spring) ==
    {SpringNodes(ActiveBones(spring.bones))[k] :
        k \in 1..Len(SpringNodes(ActiveBones(spring.bones)))}

\* VRMSpringBoneLogic constructor: the node, and its parent if it has one,
\* are given a rotationQuaternion when theirs is null
QuaternionGiven(nodes) == nodes \cup ({parent(n) : n \in nodes} \ {NoNode})

\* the nodes still without rotationQuaternion once every spring of the list
\* has built its spring nodes
EulerOnlyAfter(nodes, springList) ==
    nodes \ QuaternionGiven(UNION {SpringTransforms(springList[i]) : i \in 1..Len(springList)})

(***************************************************************************)
(* VRMSpringBoneLogic.update and its helpers.                              *)
(***************************************************************************)
\* 0.02, the slack taken off the squared collision distance
CollisionSlack == (2 * Scale * Scale) \div 100

\* faulty variant of CollideOne: the slack is added to r * r, not taken off
CollideSlackAdded(collider, nextTail, radius, boneLength, absPos) ==
    IF FLeq(LengthSquared(VSub(nextTail, collider.position)),
            (radius + collider.radius) * (radius + collider.radius)
                + (2 * Scale * Scale) \div 100)
    THEN VAdd(absPos,
              multiplyByFloat(
                  Normalize(VSub(VAdd(collider.position,
                                      multiplyByFloat(
                                          Normalize(VSub(nextTail, collider.position)),
                                          radius + collider.radius)),
                                 absPos)),
                  boneLength))
    ELSE nextTail

\* faulty variant of CollideOne: the squared distance is compared with
\* r * r, without the slack
CollideNoSlack(collider, nextTail, radius, boneLength, absPos) ==
    IF FLeq(LengthSquared(VSub(nextTail, collider.position)),
            (radius + collider.radius) * (radius + collider.radius))
    THEN VAdd(absPos,
              multiplyByFloat(
                  Normalize(VSub(VAdd(collider.position,
                                      multiplyByFloat(
                                          Normalize(VSub(nextTail, collider.position)),
                                          radius + collider.radius)),
                                 absPos)),
                  boneLength))
    ELSE nextTail

\* one collider of VRMSpringBoneLogic.collide's loop
CollideOne(collider, nextTail, radius, boneLength, absPos) ==
    LET r == radius + collider.radius
        axis == VSub(nextTail, collider.position)
    IN IF FLeq(LengthSquared(axis), r * r - CollisionSlack)
       THEN LET posFromCollider ==
                    VAdd(collider.position, multiplyByFloat(Normalize(axis), r))
            IN VAdd(absPos,
                    multiplyByFloat(Normalize(VSub(posFromCollider, absPos)), boneLength))
       ELSE nextTail

RECURSIVE collideFromStart(_, _, _, _, _)
\* faulty variant of collide: every collider is tested against, and pushes,
\* the tail collide was called with; the last one that hits gives the result
collideFromStart(colliders, nextTail, radius, boneLength, absPos) ==
    IF colliders = <<>> THEN nextTail
    ELSE IF CollideOne(colliders[Len(colliders)], nextTail, radius, boneLength, absPos)
               # nextTail
    THEN CollideOne(colliders[Len(colliders)], nextTail, radius, boneLength, absPos)
    ELSE collideFromStart(SubSeq(colliders, 1, Len(colliders) - 1), nextTail, radius,
                          boneLength, absPos)

RECURSIVE collide(_, _, _, _, _)
\* VRMSpringBoneLogic.collide: the colliders one after another
collide(colliders, nextTail, radius, boneLength, absPos) ==
    IF colliders = <<>> THEN nextTail
    ELSE After(nextTail,
            collide(Tail(colliders),
                    CollideOne(Head(colliders), nextTail, radius, boneLength, absPos),
                    radius, boneLength, absPos))

\* the world rotation of the bone at its initial local rotation
RestRotation(logic, rot) ==
    QMul(getAbsoluteRotationQuaternion(rot, parent(logic.transform)), logic.localRotation)

\* faulty variant of AimRotation: the shortest arc alone, not composed with
\* the rest rotation
AimUncomposed(rotation, boneAxis, toAxis) ==
    fromToRotation(multiplyWithVector3(rotation, boneAxis), toAxis)

\* the rotation that turns the rest bone axis onto toAxis, after rotation
AimRotation(rotation, boneAxis, toAxis) ==
    After(rotation, After(toAxis,
        QMul(fromToRotation(multiplyWithVector3(rotation, boneAxis), toAxis), rotation)))

\* faulty variant of transformToRotation: the bone keeps its rest rotation
\* wherever the tail went
RestAim(logic, rot, absPos, nextTail) == RestRotation(logic, rot)

\* VRMSpringBoneLogic.transformToRotation
transformToRotation(logic, rot, absPos, nextTail) ==
    AimRotation(RestRotation(logic, rot), logic.boneAxis,
                Normalize(VSub(nextTail, absPos)))

\* the local rotation that gives a node the world rotation quatRotation
\* under a parent whose world rotation is parentRotation
LocalRotationUnder(parentRotation, quatRotation) ==
    After(parentRotation, After(quatRotation,
        QCanonical(QMul(QConjugate(parentRotation), quatRotation))))

\* VRMSpringBoneLogic.setAbsoluteRotationQuaternion
setAbsoluteRotationQuaternion(rot, node, quatRotation) ==
    IF parent(node) # NoNode
    THEN LocalRotationUnder(AbsoluteRotation(rot, parent(node)), quatRotation)
    ELSE quatRotation

\* the validity guard of update
InvalidPosition(absPos) == IsNaN(absPos.x)

\* faulty variant of CandidateFrom: the stiffness term is left out
CandidateNoStiffness(currentTail, prevTail, attenuation, rotatedVec, stiffnessForce, external) ==
    VAdd(VAdd(currentTail, multiplyByFloat(VSub(currentTail, prevTail), attenuation)),
         external)

\* currentTail + inertia + stiffness + external, from the rotated bone axis
CandidateFrom(currentTail, prevTail, attenuation, rotatedVec, stiffnessForce, external) ==
    After(rotatedVec,
        VAdd(VAdd(VAdd(currentTail,
                       multiplyByFloat(VSub(currentTail, prevTail), attenuation)),
                  multiplyByFloat(rotatedVec, stiffnessForce)),
             external))

\* faulty variant of Candidate: the Verlet step starts from a scratch vector
\* all spring nodes share, which holds the tail of the update made before
CandidateScratch(logic, rot, centerAbsolutePos, stiffnessForce, dragForce, external) ==
    CandidateFrom(IF last.index = 0
                  THEN getCenterTranslatedWorldPos(centerAbsolutePos, logic.currentTail)
                  ELSE last.constrained,
                  getCenterTranslatedWorldPos(centerAbsolutePos, logic.prevTail),
                  FSub(Scale, dragForce),
                  multiplyWithVector3(RestRotation(logic, rot), logic.boneAxis),
                  stiffnessForce, external)

\* faulty variant of Candidate: dragForce is taken as the fraction of the
\* previous displacement that is kept
CandidateDragKept(logic, rot, centerAbsolutePos, stiffnessForce, dragForce, external) ==
    CandidateFrom(getCenterTranslatedWorldPos(centerAbsolutePos, logic.currentTail),
                  getCenterTranslatedWorldPos(centerAbsolutePos, logic.prevTail),
                  dragForce,
                  multiplyWithVector3(RestRotation(logic, rot), logic.boneAxis),
                  stiffnessForce, external)

\* the Verlet step of update: the tail before the length constraint, in
\* world space
Candidate(logic, rot, centerAbsolutePos, stiffnessForce, dragForce, external) ==
    CandidateFrom(getCenterTranslatedWorldPos(centerAbsolutePos, logic.currentTail),
                  getCenterTranslatedWorldPos(centerAbsolutePos, logic.prevTail),
                  FSub(Scale, dragForce),
                  multiplyWithVector3(RestRotation(logic, rot), logic.boneAxis),
                  stiffnessForce, external)

\* the length constraint of update
Constrain(absPos, tail, boneLength) ==
    VAdd(absPos, multiplyByFloat(Normalize(VSub(tail, absPos)), boneLength))

\* the tail update stores as prevTail: the local currentTail, which nextTail
\* aliases while the inertia, stiffness and external terms are added in place
StoredPrevTail(currentTailWorld, candidate) == candidate

\* faulty variant of LogicStore: localRotation is the node's own quaternion
\* object (not a clone), so it takes the rotation written to the node
LogicStoreAliased(logic, rot, absPos, centerAbsolutePos, candidate, constrained, nextTail) ==
    After(nextTail,
    [skipped |-> FALSE,
     logic |-> [logic EXCEPT
         !.centerAbsolutePos = centerAbsolutePos,
         !.prevTail = getCenterTranslatedPos(centerAbsolutePos, candidate),
         !.currentTail = getCenterTranslatedPos(centerAbsolutePos, nextTail),
         !.localRotation = setAbsoluteRotationQuaternion(rot, logic.transform,
                               transformToRotation(logic, rot, absPos, nextTail))],
     rotation |-> setAbsoluteRotationQuaternion(rot, logic.transform,
                      transformToRotation(logic, rot, absPos, nextTail)),
     absPos |-> absPos, candidate |-> candidate, constrained |-> constrained])

\* faulty variant of LogicStore: boneLength is measured again from the
\* stored tail
LogicStoreMeasured(logic, rot, absPos, centerAbsolutePos, candidate, constrained, nextTail) ==
    After(nextTail,
    [skipped |-> FALSE,
     logic |-> [logic EXCEPT
         !.centerAbsolutePos = centerAbsolutePos,
         !.prevTail = getCenterTranslatedPos(centerAbsolutePos, candidate),
         !.currentTail = getCenterTranslatedPos(centerAbsolutePos, nextTail),
         !.boneLength = Length(VSub(nextTail, absPos))],
     rotation |-> setAbsoluteRotationQuaternion(rot, logic.transform,
                      transformToRotation(logic, rot, absPos, nextTail)),
     absPos |-> absPos, candidate |-> candidate, constrained |-> constrained])

\* the end of update: the tails are stored and the node is rotated
LogicStore(logic, rot, absPos, centerAbsolutePos, candidate, constrained, nextTail) ==
    After(nextTail,
    [skipped |-> FALSE,
     logic |-> [logic EXCEPT
         !.centerAbsolutePos = centerAbsolutePos,
         !.prevTail = getCenterTranslatedPos(centerAbsolutePos,
                          StoredPrevTail(getCenterTranslatedWorldPos(centerAbsolutePos,
                                                                     logic.currentTail),
                                         candidate)),
         !.currentTail = getCenterTranslatedPos(centerAbsolutePos, nextTail)],
     rotation |-> setAbsoluteRotationQuaternion(rot, logic.transform,
                      transformToRotation(logic, rot, absPos, nextTail)),
     absPos |-> absPos, candidate |-> candidate, constrained |-> constrained])

\* update from the constrained tail on: the collision
LogicCollide(logic, rot, absPos, centerAbsolutePos, candidate, constrained, colliders) ==
    After(constrained,
        LogicStore(logic, rot, absPos, centerAbsolutePos, candidate, constrained,
                   collide(colliders, constrained, logic.radius, logic.boneLength, absPos)))

\* update from the candidate tail on: the length constraint
LogicConstrain(logic, rot, absPos, centerAbsolutePos, candidate, colliders) ==
    After(candidate,
        LogicCollide(logic, rot, absPos, centerAbsolutePos, candidate,
                     Constrain(absPos, candidate, logic.boneLength), colliders))

\* faulty variant of LogicUpdateAt: the guard is taken after prevTail has
\* been overwritten with currentTail
LogicUpdateGuardLate(logic, rot, absPos, centerAbsolutePos, stiffnessForce, dragForce, external, colliders) ==
    IF InvalidPosition(absPos)
    THEN [skipped |-> TRUE, logic |-> [logic EXCEPT !.prevTail = logic.currentTail],
          rotation |-> rot[logic.transform],
          absPos |-> absPos, candidate |-> Zero3, constrained |-> Zero3]
    ELSE After(centerAbsolutePos,
            LogicConstrain(logic, rot, absPos, centerAbsolutePos,
                           Candidate(logic, rot, centerAbsolutePos, stiffnessForce,
                                     dragForce, external),
                           colliders))

\* update from the node's absolute position on: the guard and the Verlet step
LogicUpdateAt(logic, rot, absPos, centerAbsolutePos, stiffnessForce, dragForce, external, colliders) ==
    IF InvalidPosition(absPos)
    THEN [skipped |-> TRUE, logic |-> logic, rotation |-> rot[logic.transform],
          absPos |-> absPos, candidate |-> Zero3, constrained |-> Zero3]
    ELSE After(centerAbsolutePos,
            LogicConstrain(logic, rot, absPos, centerAbsolutePos,
                           Candidate(logic, rot, centerAbsolutePos, stiffnessForce,
                                     dragForce, external),
                           colliders))

\* VRMSpringBoneLogic.update: the new spring node and the node's new rotation
LogicUpdate(logic, pos, rot, center, stiffnessForce, dragForce, external, colliders) ==
    LogicUpdateAt(logic, rot, getAbsolutePosition(pos, rot, logic.transform),
                  CenterPosition(pos, rot, center), stiffnessForce, dragForce,
                  external, colliders)

(***************************************************************************)
(* VRMSpringBone.update: one chain's frame, node by node.                  *)
(***************************************************************************)
\* units of deltaTime (seconds) per 1.0
TimeScale == 1000000

\* SphereCollider.position: the owner's absolute position plus the offset
ColliderPosition(pos, rot, group, collider) ==
    VAdd(getAbsolutePosition(pos, rot, group.transform), collider.offset)

RECURSIVE ColliderList(_, _, _, _)
\* the colliders of the groups a spring refers to, in list order; a
\* reference that selects no group, or a group without owner, gives none
ColliderList(refs, cgs, pos, rot) ==
    IF refs = <<>> THEN <<>>
    ELSE LET rest == ColliderList(Tail(refs), cgs, pos, rot)
         IN IF Head(refs) = 0 THEN rest
            ELSE IF cgs[Head(refs)].transform = NoNode THEN rest
            ELSE LET group == cgs[Head(refs)]
                 IN [j \in 1..Len(group.colliders) |->
                       [position |-> ColliderPosition(pos, rot, group, group.colliders[j]),
                        radius |-> group.colliders[j].radius]] \o rest

\* a chain parameter of this frame: the update's override when it is
\* present and non-zero, the chain's own value otherwise
FrameValue(override, own) == IF Truthy(override) THEN override ELSE own

\* stiffness * deltaTime
StiffnessForce(spring, bo, dt) ==
    RDiv(FrameValue(bo.stiffness, spring.stiffness) * dt, TimeScale)

\* gravityDir * (gravityPower * deltaTime)
ExternalForce(spring, bo, dt) ==
    multiplyByFloat(IF bo.gravityDir # <<>> THEN bo.gravityDir[1] ELSE spring.gravityDir,
                    RDiv(FrameValue(bo.gravityPower, spring.gravityPower) * dt, TimeScale))

\* faulty variant of NodeUpdate: every node of the frame is updated against
\* the rotations the frame started with
NodeUpdateStale(spring, logic, cgs, pos, rot, bo, dt) ==
    LogicUpdate(logic, pos, call.rotationQuaternion, spring.center,
                StiffnessForce(spring, bo, dt),
                FrameValue(bo.dragForce, spring.dragForce),
                ExternalForce(spring, bo, dt),
                ColliderList(spring.colliderGroups, cgs, pos, call.rotationQuaternion))

\* the update of spring node k of a chain
NodeUpdate(spring, logic, cgs, pos, rot, bo, dt) ==
    LogicUpdate(logic, pos, rot, spring.center,
                StiffnessForce(spring, bo, dt),
                FrameValue(bo.dragForce, spring.dragForce),
                ExternalForce(spring, bo, dt),
                ColliderList(spring.colliderGroups, cgs, pos, rot))

(***************************************************************************)
(* SpringBoneController.update and the frame.                              *)
(***************************************************************************)
\* the frames explored and the scene changes made before them; a repeated
\* setup is explored before the first frame
MaxFrames == 2
MaxMoves == 1

\* deltaTime values (milliseconds) the render loop passes
DeltaChoices == {-20, 16, 125, 5000}

\* the boneOptions passed to update with a deltaTime
BoneOptionsFor(dt) == IF dt = 16 THEN [NoOptions EXCEPT !.dragForce = 1000] ELSE NoOptions

MathMin(a, b) == IF IsNaN(a) \/ IsNaN(b) THEN NaN ELSE IF FLeq(a, b) THEN a ELSE b
MathMax(a, b) == IF IsNaN(a) \/ IsNaN(b) THEN NaN ELSE IF FLeq(a, b) THEN b ELSE a

\* faulty variant of ClampDeltaTime: no lower limit
ClampAbove(dt) == RDiv(MathMin(125, dt) * TimeScale, 1000)

\* faulty variant of ClampDeltaTime: the upper limit at 250
ClampWide(dt) == RDiv(MathMax(0, MathMin(250, dt)) * TimeScale, 1000)

\* deltaTime = Math.max(0.0, Math.min(125, deltaTime)) / 1000
ClampDeltaTime(dt) ==
    LET ms == MathMax(0, MathMin(125, dt))
    IN IF IsFinite(ms) THEN RDiv(ms * TimeScale, 1000) ELSE ms

NoCall ==
    [deltaTime |-> 0, verlets |-> <<>>, rotationQuaternion |-> <<>>]

NoUpdate ==
    [spring |-> 0, index |-> 0, skipped |-> FALSE, absPos |-> Zero3,
     before |-> <<>>, rotationBefore |-> <<>>, candidate |-> Zero3,
     constrained |-> Zero3, colliders |-> <<>>, setup |-> <<>>, force |-> <<>>]

\* the state once VRMManager's constructor has built the controller and
\* called its setup
Init ==
    /\ \E c \in ConfigChoices : ext = c[1] /\ options = c[2]
    /\ position = [n \in Nodes |-> RestPosition(n)]
    /\ rotationQuaternion = [n \in Nodes |-> QIdentity]
    /\ colliderGroups = constructColliderGroups(ext)
    /\ springs = constructSprings(ext, constructColliderGroups(ext), options)
    /\ verlets = [i \in 1..Len(ext.boneGroups) |->
                     SpringSetup(constructSprings(ext, constructColliderGroups(ext),
                                                  options)[i],
                                 [n \in Nodes |-> RestPosition(n)],
                                 [n \in Nodes |-> QIdentity])]
    /\ phase = "idle"
    /\ deltaTime = 0
    /\ boneOptions = NoOptions
    /\ progress = [i \in 1..Len(ext.boneGroups) |-> 0]
    /\ frames = 0
    /\ moves = 0
    /\ call = NoCall
    /\ last = NoUpdate
    /\ eulerOnly = EulerOnlyAfter(AuthoredEulerOnly,
                                  constructSprings(ext, constructColliderGroups(ext), options))
    /\ disposed = FALSE

\* setup(force = false): the force flag of a call, <<>> when omitted
ForceChoices == {<<>>, <<FALSE>>, <<TRUE>>}

\* faulty variant of ForceFlag: an omitted flag counts as true
ForceFlagSet(force) == IF force = <<>> THEN TRUE ELSE force[1]

\* the flag every spring's setup is called with
ForceFlag(force) == IF force = <<>> THEN FALSE ELSE force[1]

\* SpringBoneController.setup(force): every spring of the list is set up,
\* with the call's flag; a VRMSpringBone no longer in the list is left alone
Setup(force) ==
    /\ phase = "idle"
    /\ frames = 0
    /\ verlets' = [i \in DOMAIN verlets |->
                     IF i <= Len(springs)
                     THEN SpringSetup(springs[i], position, rotationQuaternion)
                     ELSE verlets[i]]
    /\ eulerOnly' = EulerOnlyAfter(eulerOnly, springs)
    /\ last' = [NoUpdate EXCEPT !.setup = <<force>>,
                                !.force = [i \in 1..Len(springs) |-> ForceFlag(force)]]
    /\ UNCHANGED <<ext, options, disposed, position, rotationQuaternion, colliderGroups,
                   springs, phase, deltaTime, boneOptions, progress, frames, moves, call>>

\* SpringBoneController.update(deltaTime, boneOptions) up to the creation of
\* the chains' promises
Update(dt, bo) ==
    /\ phase = "idle"
    /\ frames < MaxFrames
    /\ deltaTime' = ClampDeltaTime(dt)
    /\ boneOptions' = bo
    /\ progress' = [i \in 1..Len(springs) |-> 0]
    /\ phase' = "running"
    /\ frames' = frames + 1
    /\ call' = [deltaTime |-> dt, verlets |-> verlets,
                rotationQuaternion |-> rotationQuaternion]
    /\ last' = NoUpdate
    /\ UNCHANGED <<ext, options, disposed, eulerOnly, position, rotationQuaternion,
                   colliderGroups, springs, verlets, moves>>

\* the result r of updating spring node k of chain i is written back
StoreUpdate(i, k, logic, r) ==
    /\ verlets' = [verlets EXCEPT ![i][k] = r.logic]
    /\ rotationQuaternion' = [rotationQuaternion EXCEPT ![logic.transform] = r.rotation]
    /\ progress' = [progress EXCEPT ![i] = k]
    /\ last' = [spring |-> i, index |-> k, skipped |-> r.skipped, absPos |-> r.absPos,
                before |-> <<logic>>,
                rotationBefore |-> <<rotationQuaternion[logic.transform]>>,
                candidate |-> r.candidate, constrained |-> r.constrained,
                colliders |-> ColliderList(springs[i].colliderGroups, colliderGroups,
                                           position, rotationQuaternion),
                setup |-> <<>>, force |-> <<>>]

\* the next spring node of chain i is updated (VRMSpringBoneLogic.update)
VerletUpdate(i) ==
    /\ phase = "running"
    /\ progress[i] < Len(verlets[i])
    /\ StoreUpdate(i, progress[i] + 1, verlets[i][progress[i] + 1],
                   NodeUpdate(springs[i], verlets[i][progress[i] + 1], colliderGroups,
                              position, rotationQuaternion, boneOptions, deltaTime))
    /\ UNCHANGED <<ext, options, disposed, eulerOnly, position, colliderGroups, springs,
                   phase, deltaTime, boneOptions, frames, moves, call>>

\* faulty variant of AllChainsDone: the promise of a chain whose last update
\* was skipped by the guard stays pending
AllChainsAdvanced ==
    /\ \A i \in 1..Len(springs) : progress[i] = Len(verlets[i])
    /\ ~last.skipped

\* faulty variant of AllChainsDone: one resolved promise is enough
SomeChainDone == \E i \in 1..Len(springs) : progress[i] = Len(verlets[i])

\* every chain's promise is resolved
AllChainsDone == \A i \in 1..Len(springs) : progress[i] = Len(verlets[i])

\* Promise.all(promises).then(...) resolves the promise update returned
Join ==
    /\ phase = "running"
    /\ AllChainsDone
    /\ phase' = "resolved"
    /\ last' = NoUpdate
    /\ UNCHANGED <<ext, options, disposed, eulerOnly, position, rotationQuaternion,
                   colliderGroups, springs, verlets, deltaTime, boneOptions, progress,
                   frames, moves, call>>

\* VRMManager.update: the await of springBoneController.update returns
ManagerResume ==
    /\ phase = "resolved"
    /\ phase' = "idle"
    /\ call' = NoCall
    /\ UNCHANGED <<ext, options, disposed, eulerOnly, position, rotationQuaternion,
                   colliderGroups, springs, verlets, deltaTime, boneOptions, progress,
                   frames, moves, last>>

\* faulty variant of NoSprings: the list is left as it is
KeptSprings == springs

\* this.springs = []
NoSprings == <<>>

\* SpringBoneController.dispose (VRMManager.dispose calls it), between frames;
\* the VRMSpringBone objects dropped from the list are not touched
Dispose ==
    /\ phase = "idle"
    /\ springs' = NoSprings
    /\ disposed' = TRUE
    /\ last' = NoUpdate
    /\ UNCHANGED <<ext, options, eulerOnly, position, rotationQuaternion, colliderGroups,
                   verlets, phase, deltaTime, boneOptions, progress, frames, moves, call>>

\* positions the application may give a node between frames
PositionChoices(n) ==
    CASE n = "hips" -> {Vec(60, 1000, 0)}
      [] n = "tail" -> {Vec(NaN, 0, 300), Vec(400, NaN, 300)}
      [] OTHER -> {}

\* the application moves a node between two frames
SetPosition(n, p) ==
    /\ phase = "idle"
    /\ frames < MaxFrames
    /\ moves < MaxMoves
    /\ position[n] # p
    /\ position' = [position EXCEPT ![n] = p]
    /\ moves' = moves + 1
    /\ UNCHANGED <<ext, options, disposed, eulerOnly, rotationQuaternion, colliderGroups,
                   springs, verlets, phase, deltaTime, boneOptions, progress, frames, call,
                   last>>

Next ==
    \/ \E force \in ForceChoices : Setup(force)
    \/ \E dt \in DeltaChoices : Update(dt, BoneOptionsFor(dt))
    \/ \E i \in 1..Len(springs) : VerletUpdate(i)
    \/ Join
    \/ ManagerResume
    \/ Dispose
    \/ \E n \in Nodes : \E p \in PositionChoices(n) : SetPosition(n, p)

Spec == Init /\ [][Next]_vars

\* the continuation of chain i's update runs: its next spring node is
\* updated (the step VerletUpdate(i) makes, seen on the chain's position)
ChainStep(i) ==
    /\ phase = "running"
    /\ i <= Len(springs)
    /\ progress[i] < Len(verlets[i])
    /\ progress' = [progress EXCEPT ![i] = progress[i] + 1]

\* the places of the controller's list of chains
ChainIndices == {1, 2, 3}

\* the event loop runs every pending continuation: a chain's next node
\* update, the join of the chains' promises and the resumption of the
\* awaiting caller are each taken once they stay possible
LiveSpec ==
    /\ Init
    /\ [][Next]_vars
    /\ \A i \in ChainIndices : WF_progress(ChainStep(i))
    /\ WF_vars(Join)
    /\ WF_vars(ManagerResume)

(***************************************************************************)
(* One spring node under repeated updates: the node hair1 under its static  *)
(* parent, updated with stiffnessForce = 1, dragForce = 1, no external      *)
(* force and no collider, from a given start position of its tail.          *)
(***************************************************************************)
\* the updates made on the node
MaxSteadyFrames == 22

\* bone lengths: shorter than, equal to and longer than stiffnessForce
BoneLengthChoices == {300, 1000, 1500}

\* directions of the start tail from the node; the rest direction is
\* (0, -1, 0) and (0, 1, 0) is exactly opposite to it
StartDirections ==
    {Vec(0, -1000, 0), Vec(0, 1000, 0), Vec(1000, 0, 0), Vec(0, 0, 1000),
     Vec(600, 800, 0), Vec(0, 600, -800), Vec(-280, 960, 0), Vec(600, 0, 800)}

\* the spring node of hair1 with a child at boneLength down its rest axis,
\* its tail at boneLength from the node in direction dir
SteadyNode(boneLength, dir) ==
    [NewSpringBoneLogic([n \in Nodes |-> RestPosition(n)], [n \in Nodes |-> QIdentity],
                        NoNode, 0, "hair1", Vec(0, 0 - boneLength, 0))
        EXCEPT !.currentTail =
                  VAdd(getAbsolutePosition([n \in Nodes |-> RestPosition(n)],
                                           [n \in Nodes |-> QIdentity], "hair1"),
                       multiplyByFloat(dir, boneLength)),
               !.prevTail =
                  VAdd(getAbsolutePosition([n \in Nodes |-> RestPosition(n)],
                                           [n \in Nodes |-> QIdentity], "hair1"),
                       multiplyByFloat(dir, boneLength))]

SteadyInit ==
    /\ ext = ExtHair
    /\ options = NoOptions
    /\ position = [n \in Nodes |-> RestPosition(n)]
    /\ rotationQuaternion = [n \in Nodes |-> QIdentity]
    /\ colliderGroups = <<>>
    /\ springs = <<>>
    /\ \E boneLength \in BoneLengthChoices : \E dir \in StartDirections :
          /\ verlets = <<(<<SteadyNode(boneLength, dir)>>)>>
          /\ call = [NoCall EXCEPT !.verlets = <<(<<SteadyNode(boneLength, dir)>>)>>]
    /\ phase = "idle"
    /\ deltaTime = 0
    /\ boneOptions = NoOptions
    /\ progress = <<0>>
    /\ frames = 0
    /\ moves = 0
    /\ last = NoUpdate
    /\ eulerOnly = {}
    /\ disposed = FALSE

\* the result r of the update is written back
SteadyStore(r) ==
    /\ verlets' = <<(<<r.logic>>)>>
    /\ rotationQuaternion' = [rotationQuaternion EXCEPT !["hair1"] = r.rotation]

\* VRMSpringBoneLogic.update(null, 1, 1, (0, 0, 0), [])
SteadyUpdate ==
    /\ frames < MaxSteadyFrames
    /\ SteadyStore(LogicUpdate(verlets[1][1], position, rotationQuaternion, NoNode,
                               Scale, Scale, Zero3, <<>>))
    /\ frames' = frames + 1
    /\ UNCHANGED <<ext, options, disposed, eulerOnly, position, colliderGroups, springs,
                   phase, deltaTime, boneOptions, progress, moves, call, last>>

SteadyNext == SteadyUpdate

SteadySpec == SteadyInit /\ [][SteadyNext]_vars

(***************************************************************************)
(* One spring node against a list of colliders: the node hair1 (absolute   *)
(* position (0.1, 1.6, 0), boneLength 0.3, rest axis (0, -1, 0)) updated    *)
(* with deltaTime 0 and dragForce 1, so that the tail the collision starts  *)
(* from is the node's current tail, brought to boneLength.                  *)
(***************************************************************************)
\* the updates made on the node
MaxCollideFrames == 2

\* start tails, at boneLength from the node: the rest tail and five others
StartTails ==
    {Vec(100, 1300, 0), Vec(280, 1360, 0), Vec(400, 1600, 0), Vec(100, 1420, 240),
     Vec(-80, 1360, 0), Vec(100, 1900, 0)}

\* hit radii of the chain
HitRadiusChoices == {20, 50}

\* a collider of the group owned by hips (absolute position (0, 1, 0)),
\* given by its world position
ColliderAt(p, radius) == [offset |-> VSub(p, RestPosition("hips")), radius |-> radius]

\* at the rest tail; further down the rest axis; beside the rest tail;
\* farther beside it, out of reach of the rest tail; a small one at the
\* rest tail
AtTail == ColliderAt(Vec(100, 1300, 0), 200)
DownAxis == ColliderAt(Vec(100, 1200, 0), 200)
Beside == ColliderAt(Vec(200, 1300, 0), 200)
FarBeside == ColliderAt(Vec(-150, 1300, 0), 200)
SmallAtTail == ColliderAt(Vec(100, 1300, 0), 100)

\* the collider lists of the group
ColliderLists ==
    { <<AtTail>>, <<DownAxis>>, <<Beside>>, <<FarBeside>>, <<SmallAtTail>>,
      <<Beside, FarBeside>>, <<FarBeside, Beside>>, <<Beside, SmallAtTail>>,
      <<AtTail, Beside>>, <<Beside, AtTail, FarBeside>> }

\* the chain of hair1 alone, referring to the one collider group
CollideSpring(hitRadius) ==
    [comment |-> "hair", stiffness |-> 1000, gravityPower |-> 0, gravityDir |-> Zero3,
     dragForce |-> Scale, center |-> NoNode, hitRadius |-> hitRadius,
     bones |-> <<"hair1">>, colliderGroups |-> <<1>>]

\* the spring node of hair1 with its tail at tail
CollideNode(hitRadius, tail) ==
    [NewSpringBoneLogic([n \in Nodes |-> RestPosition(n)], [n \in Nodes |-> QIdentity],
                        NoNode, hitRadius, "hair1", Vec(0, -300, 0))
        EXCEPT !.currentTail = tail, !.prevTail = tail]

CollideInit ==
    /\ ext = ExtHair
    /\ options = NoOptions
    /\ position = [n \in Nodes |-> RestPosition(n)]
    /\ rotationQuaternion = [n \in Nodes |-> QIdentity]
    /\ \E list \in ColliderLists :
          colliderGroups = <<[transform |-> "hips", colliders |-> list]>>
    /\ \E hitRadius \in HitRadiusChoices : \E tail \in StartTails :
          /\ springs = <<CollideSpring(hitRadius)>>
          /\ verlets = <<(<<CollideNode(hitRadius, tail)>>)>>
          /\ call = [NoCall EXCEPT !.verlets = <<(<<CollideNode(hitRadius, tail)>>)>>]
    /\ phase = "idle"
    /\ deltaTime = 0
    /\ boneOptions = NoOptions
    /\ progress = <<0>>
    /\ frames = 0
    /\ moves = 0
    /\ last = NoUpdate
    /\ eulerOnly = {}
    /\ disposed = FALSE

\* VRMSpringBoneLogic.update(null, 0, 1, (0, 0, 0), colliders) on the node
CollideUpdate ==
    /\ frames < MaxCollideFrames
    /\ StoreUpdate(1, 1, verlets[1][1],
                   NodeUpdate(springs[1], verlets[1][1], colliderGroups, position,
                              rotationQuaternion, boneOptions, deltaTime))
    /\ frames' = frames + 1
    /\ UNCHANGED <<ext, options, disposed, eulerOnly, position, colliderGroups, springs,
                   phase, deltaTime, boneOptions, moves, call>>

CollideNext == CollideUpdate

CollideSpec == CollideInit /\ [][CollideNext]_vars

(***************************************************************************)
(* One spring node at its rest pose: the node hair1 under a static parent   *)
(* with a given rotation, itself with a given rest local rotation, its      *)
(* tail at boneLength along the rest axis as the parent carries it, updated *)
(* without external force and without colliders.                            *)
(***************************************************************************)
\* the updates made on the node
MaxRestFrames == 4

\* rotations of the parent (head) and rest local rotations of the node:
\* none, a third of a turn about (1, 1, 1) and about (1, -1, 1), and half a
\* turn about Z
ParentRotations == {QIdentity, Quat(500, 500, 500, 500), Quat(0, 0, 1000, 0)}
RestRotations == {QIdentity, Quat(500, 500, 500, 500), Quat(500, -500, 500, 500)}

\* deltaTime (in seconds), stiffness and dragForce of the chain
RestDeltaTimes == {0, 16000, 125000}
RestStiffness == {1000, 4000}
RestDragForces == {0, 400, 1000}

\* distances of the child from the node
RestBoneLengths == {70, 300}

\* the scene with the parent and the node rotated
RestScene(parentRotation, localRotation) ==
    [n \in Nodes |-> IF n = "head" THEN parentRotation
                     ELSE IF n = "hair1" THEN localRotation ELSE QIdentity]

\* the chain of hair1 alone: no gravity, no collider group
RestSpring(stiffness, dragForce) ==
    [comment |-> "hair", stiffness |-> stiffness, gravityPower |-> 0,
     gravityDir |-> Vec(0, -1000, 0), dragForce |-> dragForce, center |-> NoNode,
     hitRadius |-> 20, bones |-> <<"hair1">>, colliderGroups |-> <<>>]

\* the rest tail: absolutePosition + boneLength * (parentWorldRotation *
\* restLocalRotation * boneAxis)
RestPoseTail(logic, pos, rot) ==
    VAdd(getAbsolutePosition(pos, rot, logic.transform),
         multiplyByFloat(multiplyWithVector3(RestRotation(logic, rot), logic.boneAxis),
                         logic.boneLength))

\* the spring node with both tails at the rest tail
AtRest(logic, pos, rot) ==
    [logic EXCEPT !.currentTail = RestPoseTail(logic, pos, rot),
                  !.prevTail = RestPoseTail(logic, pos, rot)]

\* the spring node of hair1 in the scene rot, at rest
RestNode(rot, boneLength) ==
    AtRest(NewSpringBoneLogic([n \in Nodes |-> RestPosition(n)], rot, NoNode, 20, "hair1",
                              Vec(0, 0 - boneLength, 0)),
           [n \in Nodes |-> RestPosition(n)], rot)

RestInit ==
    /\ ext = ExtHair
    /\ options = NoOptions
    /\ position = [n \in Nodes |-> RestPosition(n)]
    /\ colliderGroups = <<>>
    /\ \E stiffness \in RestStiffness : \E dragForce \in RestDragForces :
          springs = <<RestSpring(stiffness, dragForce)>>
    /\ \E parentRotation \in ParentRotations : \E localRotation \in RestRotations :
       \E boneLength \in RestBoneLengths :
          /\ rotationQuaternion = RestScene(parentRotation, localRotation)
          /\ verlets = <<(<<RestNode(RestScene(parentRotation, localRotation),
                                     boneLength)>>)>>
          /\ call = [NoCall EXCEPT
                        !.verlets = <<(<<RestNode(RestScene(parentRotation, localRotation),
                                                  boneLength)>>)>>,
                        !.rotationQuaternion = RestScene(parentRotation, localRotation)]
    /\ phase = "idle"
    /\ deltaTime \in RestDeltaTimes
    /\ boneOptions = NoOptions
    /\ progress = <<0>>
    /\ frames = 0
    /\ moves = 0
    /\ last = NoUpdate
    /\ eulerOnly = {}
    /\ disposed = FALSE

\* VRMSpringBoneLogic.update(null, stiffness * deltaTime, dragForce,
\* (0, 0, 0), []) on the node
RestUpdate ==
    /\ frames < MaxRestFrames
    /\ StoreUpdate(1, 1, verlets[1][1],
                   NodeUpdate(springs[1], verlets[1][1], colliderGroups, position,
                              rotationQuaternion, boneOptions, deltaTime))
    /\ frames' = frames + 1
    /\ UNCHANGED <<ext, options, disposed, eulerOnly, position, colliderGroups, springs,
                   phase, deltaTime, boneOptions, moves, call>>

RestNext == RestUpdate

RestSpec == RestInit /\ [][RestNext]_vars

(***************************************************************************)
(* Properties.  The spring node update just made is described by last;     *)
(* the update call in progress by call.                                    *)
(***************************************************************************)
\* lengths are compared up to 0.002
Within(a, b) == a - b <= Scale \div 500 /\ b - a <= Scale \div 500

\* the spring node as the update just made left it
Updated == verlets[last.spring][last.index]

\* a spring node's tail in world space
WorldTail(logic) == getCenterTranslatedWorldPos(logic.centerAbsolutePos, logic.currentTail)

\* a millisecond value clamped to [0, 125]
ClampMs(d) == IF d < 0 THEN 0 ELSE IF d > 125 THEN 125 ELSE d

SameOutcome(r) ==
    /\ r.skipped = last.skipped
    /\ r.logic = Updated
    /\ r.rotation = rotationQuaternion[Updated.transform]

\* the update just made, repeated from the state before it as if the frame
\* had been called with d milliseconds
Replayed(d) ==
    NodeUpdate(springs[last.spring], last.before[1], colliderGroups, position,
               [rotationQuaternion EXCEPT ![Updated.transform] = last.rotationBefore[1]],
               boneOptions, ClampDeltaTime(d))

\* C2: every spring node update of a frame leaves the node's currentTail,
\* prevTail and rotation exactly as the same update would in a frame called
\* with any other deltaTime that clamps to the same value
C2_ClampEquivalence ==
    last.index # 0 =>
        \A d \in DeltaChoices :
            (d # call.deltaTime /\ ClampMs(d) = ClampMs(call.deltaTime))
                => SameOutcome(Replayed(d))

\* C2: an update(5000) frame has moved a spring node's tail
C2_Witness ==
    /\ last.index # 0
    /\ call.deltaTime = 5000
    /\ ~last.skipped
    /\ Updated.currentTail # last.before[1].currentTail

\* C3 as stated: no entry of the controller's chain list is built for an
\* unresolved root bone, every resolved root has its spring nodes, and a
\* completed frame has advanced every chain
C3_Original ==
    /\ \A i \in 1..Len(springs) : \A k \in 1..Len(springs[i].bones) :
          springs[i].bones[k] # NoNode
    /\ \A i \in 1..Len(springs) : \A k \in 1..Len(springs[i].bones) :
          springs[i].bones[k] # NoNode
              => \E j \in 1..Len(verlets[i]) : verlets[i][j].transform = springs[i].bones[k]
    /\ phase = "resolved" => \A i \in 1..Len(springs) : progress[i] = Len(verlets[i])

\* C4 as stated: no ColliderGroup is constructed for a configured collider
\* group whose node index is unresolved
C4_Original ==
    /\ \A i \in 1..Len(colliderGroups) : colliderGroups[i].transform # NoNode
    /\ Len(colliderGroups) =
          Cardinality({i \in 1..Len(ext.colliderGroups) :
                          getBone(ext.colliderGroups[i].node) # NoNode})

\* the value a chain uses for a number field: the override when it is
\* present, non-zero and a number, the authored value otherwise
NumberUsed(override, authored) ==
    IF override # Undefined /\ override # 0 /\ override # NaN THEN override ELSE authored

\* the authored gravity direction, in Babylon coordinates
AuthoredGravityDir(group) == Normalize(FlipXZ(group.gravityDir))

C6_Original ==
    (last.index # 0 /\ ~VFinite(last.absPos)) => last.skipped

\* C7: a skipped update is made without error and leaves the spring node
\* (currentTail and prevTail among its fields) and the node's rotation as
\* they were before it
C7_SkipLeavesState ==
    (last.index # 0 /\ last.skipped) =>
        /\ progress[last.spring] = last.index
        /\ Updated = last.before[1]
        /\ rotationQuaternion[Updated.transform] = last.rotationBefore[1]

\* C7: a spring node in motion (currentTail differs from prevTail) has been
\* skipped
C7_Witness ==
    /\ last.index # 0
    /\ last.skipped
    /\ last.before[1].currentTail # last.before[1].prevTail

\* C8 as stated: after every update that is not skipped, at a valid
\* position, the tail lies at boneLength from the node
C8_Original ==
    (last.index # 0 /\ ~last.skipped /\ VFinite(last.absPos)) =>
        Within(Distance(last.absPos, WorldTail(Updated)), Updated.boneLength)

\* the world tail of a spring node in its rest direction
RestTail(logic, rot, absPos) ==
    VAdd(absPos, multiplyByFloat(multiplyWithVector3(RestRotation(logic, rot),
                                                     logic.boneAxis),
                                 logic.boneLength))

\* C9 as stated: with a single collider centred at the node's rest tail,
\* the updated tail lies at radius + hitRadius from the collider's centre and
\* at boneLength from the node
C9_Original ==
    (/\ last.index # 0
     /\ ~last.skipped
     /\ Len(last.colliders) = 1
     /\ last.colliders[1].position = RestTail(Updated, rotationQuaternion, last.absPos))
        => /\ Within(Distance(WorldTail(Updated), last.colliders[1].position),
                     last.colliders[1].radius + Updated.radius)
           /\ Within(Distance(last.absPos, WorldTail(Updated)), Updated.boneLength)

\* C10: once the completion of a frame is signalled, and from then on until
\* the next update call, every chain has updated all of its spring nodes
C10_JoinAfterAllChains ==
    (phase = "resolved" \/ (phase = "idle" /\ frames > 0)) =>
        \A i \in 1..Len(springs) : progress[i] = Len(verlets[i])

\* C10: the completion of the second frame is signalled with a chain of two
\* spring nodes and a chain of one
C10_Witness ==
    /\ phase = "resolved"
    /\ frames = 2
    /\ Len(verlets[1]) = 2
    /\ Len(verlets[2]) = 1

\* the nodes a position or rotation in world space is computed through:
\* the node and its ancestors
RECURSIVE AncestorsOrSelf(_)
AncestorsOrSelf(n) == IF n = NoNode THEN {} ELSE {n} \cup AncestorsOrSelf(parent(n))

\* the owner nodes of the collider groups a spring refers to
ColliderOwners(spring) ==
    {colliderGroups[spring.colliderGroups[k]].transform :
        k \in {j \in 1..Len(spring.colliderGroups) : spring.colliderGroups[j] # 0}}

\* the nodes whose transforms a spring's update reads
NodesRead(spring) ==
    UNION {AncestorsOrSelf(n) :
              n \in SpringTransforms(spring) \cup {spring.center} \cup ColliderOwners(spring)}

\* the chains' node sets are pairwise disjoint
ChainsDisjoint ==
    \A i, j \in 1..Len(springs) :
        i # j => SpringTransforms(springs[i]) \cap SpringTransforms(springs[j]) = {}

\* no chain reads a transform that passes through a node of another chain
ChainsIndependent ==
    \A i, j \in 1..Len(springs) :
        i # j => NodesRead(springs[i]) \cap SpringTransforms(springs[j]) = {}

\* spring node k of chain i, updated with result r in the frame state s
Stored(s, i, k, r) ==
    [verlets |-> [s.verlets EXCEPT ![i][k] = r.logic],
     rotationQuaternion |->
        [s.rotationQuaternion EXCEPT ![s.verlets[i][k].transform] = r.rotation]]

\* the update of spring node k of chain i in the frame state s
StepNode(s, i, k) ==
    Stored(s, i, k,
           NodeUpdate(springs[i], s.verlets[i][k], colliderGroups, position,
                      s.rotationQuaternion, boneOptions, deltaTime))

RECURSIVE RunFrom(_, _, _)
\* the frame run chain after chain in list order, from node k of chain i on
RunFrom(s, i, k) ==
    After(s, IF i > Len(springs) THEN s
             ELSE IF k > Len(s.verlets[i]) THEN RunFrom(s, i + 1, 1)
             ELSE RunFrom(StepNode(s, i, k), i, k + 1))

\* the controller is in the frame state s
InFrameState(s) == verlets = s.verlets /\ rotationQuaternion = s.rotationQuaternion

\* the frame in progress, run in list order from the state it was called in
ListOrderFrame ==
    RunFrom([verlets |-> call.verlets, rotationQuaternion |-> call.rotationQuaternion],
            1, 1)

\* C11 (amended): when no chain reads a transform that passes through a
\* node of another chain, the state a completed frame leaves is the one the
\* chains leave when run one after the other in list order, whatever the
\* interleaving of their updates was
C11_Amended ==
    (phase = "resolved" /\ ~disposed /\ ChainsIndependent) => InFrameState(ListOrderFrame)

\* C11: a frame has completed on two independent chains, each with spring
\* nodes, and has moved tails of both
C11_Witness ==
    /\ phase = "resolved"
    /\ ~disposed
    /\ ChainsIndependent
    /\ Len(springs) = 2
    /\ verlets[1] # call.verlets[1]
    /\ verlets[2] # call.verlets[2]

\* C11 as stated: disjoint node sets are enough for the completed frame to
\* leave the same state under every interleaving
C11_Original ==
    (phase = "resolved" /\ ~disposed /\ ChainsDisjoint) => InFrameState(ListOrderFrame)

\* the update just made, made again on the node as it was before, with the
\* rotations the scene has now (the parent's as the frame has written it)
AgainstCurrentParent ==
    LogicUpdate(last.before[1], position,
                [rotationQuaternion EXCEPT ![Updated.transform] = last.rotationBefore[1]],
                springs[last.spring].center,
                StiffnessForce(springs[last.spring], boneOptions, deltaTime),
                FrameValue(boneOptions.dragForce, springs[last.spring].dragForce),
                ExternalForce(springs[last.spring], boneOptions, deltaTime),
                last.colliders)

FrameStart == [verlets |-> call.verlets, rotationQuaternion |-> call.rotationQuaternion]

\* the first two spring nodes of chain i are a bone and its child
TwoSegments(i) ==
    /\ i <= Len(springs)
    /\ Len(call.verlets[i]) >= 2
    /\ parent(call.verlets[i][2].transform) = call.verlets[i][1].transform

\* chain i's first two nodes updated from the frame's start, parent first
ParentFirst(i) == StepNode(StepNode(FrameStart, i, 1), i, 2)

\* the same two updates in reversed order, child first
ChildFirst(i) == StepNode(StepNode(FrameStart, i, 2), i, 1)

\* the child of chain i is left with the same tail and rotation in s and t
SameChild(i, s, t) ==
    /\ s.verlets[i][2] = t.verlets[i][2]
    /\ s.rotationQuaternion[call.verlets[i][2].transform]
          = t.rotationQuaternion[call.verlets[i][2].transform]

\* the parent-first update of chain i moves the parent's tail
ParentMoved(i, s) == s.verlets[i][1].currentTail # call.verlets[i][1].currentTail

\* C13: for a two-segment chain, whenever the frame moves the parent's tail,
\* updating the child before the parent leaves the child with a tail or a
\* rotation other than updating the parent before the child
C13_OrderSensitive ==
    (phase = "resolved" /\ TwoSegments(1) /\ ParentMoved(1, ParentFirst(1)))
        => ~SameChild(1, ParentFirst(1), ChildFirst(1))

\* C13: a frame has completed on a two-segment chain whose parent's tail it
\* moved, and the child-first order would have left another child tail
C13_Witness ==
    /\ phase = "resolved"
    /\ TwoSegments(1)
    /\ verlets[1][1].currentTail # call.verlets[1][1].currentTail
    /\ ParentFirst(1).verlets[1][2].currentTail # ChildFirst(1).verlets[1][2].currentTail

\* the frames after which the repeated updates have settled the tail
SettleFrames == 18

\* the one spring node of the repeated updates, and its start
SteadyLogic == verlets[1][1]
SteadyStart == call.verlets[1][1]
SteadyAbsPos == getAbsolutePosition(position, rotationQuaternion, SteadyLogic.transform)

\* the rest direction of the node under its parent
RestDirection(logic) ==
    multiplyWithVector3(RestRotation(logic, rotationQuaternion), logic.boneAxis)

\* two directions agree up to 0.002 in every component
SameDirection(u, v) == Within(u.x, v.x) /\ Within(u.y, v.y) /\ Within(u.z, v.z)

\* the tail points in the rest direction
AtRestDirection ==
    SameDirection(Normalize(VSub(WorldTail(SteadyLogic), SteadyAbsPos)),
                  RestDirection(SteadyLogic))

\* the start tail pointed exactly opposite to the rest direction
StartOpposite ==
    WorldTail(SteadyStart)
        = VSub(SteadyAbsPos,
               multiplyByFloat(RestDirection(SteadyLogic), SteadyLogic.boneLength))

\* C14 (amended): with stiffnessForce = 1, dragForce = 1, no external force,
\* no collider and a static parent, the tail points in the rest direction
\* from frame SettleFrames on, from every start except a tail exactly
\* opposite to the rest direction on a bone longer than stiffnessForce;
\* that tail stays where it started in every frame
C14_Amended ==
    /\ (frames >= SettleFrames /\ ~(StartOpposite /\ SteadyLogic.boneLength > Scale))
          => AtRestDirection
    /\ (StartOpposite /\ SteadyLogic.boneLength > Scale)
          => SteadyLogic.currentTail = SteadyStart.currentTail

\* C14: a tail started exactly opposite to the rest direction on a bone
\* shorter than stiffnessForce is in the rest direction in the last frame
C14_Witness ==
    /\ frames = MaxSteadyFrames
    /\ StartOpposite
    /\ SteadyLogic.boneLength < Scale
    /\ SteadyLogic.currentTail # SteadyStart.currentTail
    /\ AtRestDirection

\* C14 as stated: from every start, the exactly opposite one included, the
\* tail points in the rest direction from frame SettleFrames on
C14_Original == frames >= SettleFrames => AtRestDirection

\* the nodes that belong to the controller's chains
ChainTransforms ==
    UNION {{verlets[i][k].transform : k \in 1..Len(verlets[i])} : i \in DOMAIN verlets}

\* C15 as stated: the system writes the local rotation of its chains' nodes
\* and nothing else: every node keeps its position, and a node outside the
\* chains keeps its rotation and its rotationQuaternion field (null where
\* the asset gave it none)
C15_Original ==
    /\ moves = 0 => position = [n \in Nodes |-> RestPosition(n)]
    /\ \A n \in Nodes \ ChainTransforms :
          /\ rotationQuaternion[n] = QIdentity
          /\ n \in AuthoredEulerOnly => n \in eulerOnly

\* C16: once dispose was called the controller holds no chain, an update
\* called then has no chain to wait for, and no step changes a node's
\* rotation (value or representation) or a spring node
C16_DisposedInert ==
    /\ [](disposed => (springs = <<>> /\ (phase = "running" => AllChainsDone)))
    /\ [][disposed => (/\ rotationQuaternion' = rotationQuaternion
                       /\ eulerOnly' = eulerOnly
                       /\ verlets' = verlets)]_vars

\* C16: an update called after dispose has completed, with the spring
\* nodes of the dropped chains as they were
C16_Witness ==
    /\ disposed
    /\ phase = "resolved"
    /\ Len(verlets) = 2
    /\ Len(verlets[1]) = 2
    /\ verlets = call.verlets

\* the flag the setup call just made was given: FALSE when omitted
FlagGiven == IF last.setup[1] = <<>> THEN FALSE ELSE last.setup[1][1]

\* a step of setup: the record of a setup call is there afterwards and the
\* application moved nothing in the step
SetupStep == last'.setup # <<>> /\ position' = position

FrameComplete == \A i \in 1..Len(springs) : progress[i] = Len(verlets[i])

\* C18: a frame in progress leads to the signalled completion with every
\* spring node of every chain updated (or skipped by the guard), and a frame
\* in progress ends in no other way
C18_FrameCompletes ==
    /\ (phase = "running") ~> (phase = "resolved" /\ FrameComplete)
    /\ [][(phase = "running" /\ phase' # "running")
            => (phase' = "resolved" /\ FrameComplete')]_vars

\* C18: the second frame of a controller with a two-node chain and a
\* one-node chain has completed
C18_Witness ==
    /\ phase = "resolved"
    /\ frames = 2
    /\ Len(springs) = 2
    /\ progress = <<2, 1>>

\* the spring node of the last update as it was before the update
Previous == last.before[1]

\* C19 as stated: after an update that was not skipped, prevTail is the
\* currentTail of before the update, and currentTail is the constrained
\* tail (the collision aside), relative to the center
C19_Original ==
    (last.index # 0 /\ ~last.skipped) =>
        /\ Updated.prevTail = Previous.currentTail
        /\ last.colliders = <<>> =>
              Updated.currentTail =
                  getCenterTranslatedPos(Updated.centerAbsolutePos, last.constrained)

\* the tails of before the last update in world space, about the center
\* position the update read
CurrentTailWorld == VAdd(Updated.centerAbsolutePos, Previous.currentTail)
PrevTailWorld == VAdd(Updated.centerAbsolutePos, Previous.prevTail)

\* the parameters of the last update's chain in this frame
DragForceUsed == FrameValue(boneOptions.dragForce, springs[last.spring].dragForce)
StiffnessForceUsed == StiffnessForce(springs[last.spring], boneOptions, deltaTime)
ExternalUsed == ExternalForce(springs[last.spring], boneOptions, deltaTime)

\* parentWorldRotation * restLocalRotation * boneAxis of the updated node
RestAxisWorld ==
    multiplyWithVector3(
        QMul(getAbsoluteRotationQuaternion(rotationQuaternion, parent(Previous.transform)),
             Previous.localRotation),
        Previous.boneAxis)

\* C20: the tail an update that was not skipped had before the length
\* constraint is currentTail + (currentTail - prevTail) * (1 - dragForce)
\* + stiffnessForce * (parentWorldRotation * restLocalRotation * boneAxis)
\* + externalForce, the external force as it was passed; with dragForce = 1
\* it is currentTail + the stiffness term + externalForce
C20_CandidateTail ==
    (last.index # 0 /\ ~last.skipped) =>
        /\ last.candidate =
              VAdd(VAdd(VAdd(CurrentTailWorld,
                             multiplyByFloat(VSub(CurrentTailWorld, PrevTailWorld),
                                             Scale - DragForceUsed)),
                        multiplyByFloat(RestAxisWorld, StiffnessForceUsed)),
                   ExternalUsed)
        /\ (DragForceUsed = Scale /\ VFinite(CurrentTailWorld) /\ VFinite(PrevTailWorld)) =>
              last.candidate =
                  VAdd(VAdd(CurrentTailWorld,
                            multiplyByFloat(RestAxisWorld, StiffnessForceUsed)),
                       ExternalUsed)

\* C20: a node in motion (its tails differ) was updated with dragForce = 1
\* and a non-zero external force
C20_Witness ==
    /\ last.index # 0
    /\ ~last.skipped
    /\ DragForceUsed = Scale
    /\ VFinite(CurrentTailWorld)
    /\ Previous.currentTail # Previous.prevTail
    /\ ExternalUsed # Zero3
    /\ StiffnessForceUsed # 0

\* the tail the last update stored, in world space
FinalTail == VAdd(Updated.centerAbsolutePos, Updated.currentTail)

\* the trigger condition of a collider for a tail: the squared distance is
\* at most (radius + colliderRadius)^2 - 0.02
Triggered(collider, tail) ==
    FLeq(LengthSquared(VSub(tail, collider.position)),
         (Previous.radius + collider.radius) * (Previous.radius + collider.radius)
             - (2 * Scale * Scale) \div 100)

\* the tail pushed to radius + colliderRadius from the collider, then
\* brought back to boneLength from the node
PushOut(collider, tail) ==
    VAdd(last.absPos,
         multiplyByFloat(
             Normalize(VSub(VAdd(collider.position,
                                 multiplyByFloat(Normalize(VSub(tail, collider.position)),
                                                 Previous.radius + collider.radius)),
                            last.absPos)),
             Previous.boneLength))

\* the collider's centre is on the line through the node and the tail
OnBoneLine(collider, tail) ==
    Cross(VSub(tail, last.absPos), VSub(collider.position, last.absPos)) = Zero3

\* the last update was made against exactly one collider
OneCollider == last.index # 0 /\ ~last.skipped /\ Len(last.colliders) = 1

\* C21 (amended): a collider whose condition is false leaves the tail
\* exactly unchanged; one whose condition holds replaces it by the push-out
\* brought back to boneLength, which is another point whenever the
\* collider's centre is off the line through the node and the tail
C21_Amended ==
    OneCollider =>
        /\ ~Triggered(last.colliders[1], last.constrained)
              => FinalTail = last.constrained
        /\ Triggered(last.colliders[1], last.constrained)
              => /\ FinalTail = PushOut(last.colliders[1], last.constrained)
                 /\ ~OnBoneLine(last.colliders[1], last.constrained)
                       => FinalTail # last.constrained

\* C21: the condition held for the one collider, off the bone line, and the
\* tail was moved
C21_Witness ==
    /\ OneCollider
    /\ Triggered(last.colliders[1], last.constrained)
    /\ ~OnBoneLine(last.colliders[1], last.constrained)
    /\ FinalTail # last.constrained
    /\ last.constrained # last.colliders[1].position

\* C21 as stated: the collider moves the tail exactly when its condition
\* holds
C21_Original ==
    OneCollider =>
        (Triggered(last.colliders[1], last.constrained) <=> FinalTail # last.constrained)

RECURSIVE TailAfter(_)
\* the tail left by the first n colliders of the last update's list
TailAfter(n) ==
    IF n = 0 THEN last.constrained
    ELSE IF Triggered(last.colliders[n], TailAfter(n - 1))
    THEN PushOut(last.colliders[n], TailAfter(n - 1))
    ELSE TailAfter(n - 1)

\* collider n's condition held for the tail left by the colliders before it
Hit(n) == Triggered(last.colliders[n], TailAfter(n - 1))

\* the places in the list of the colliders whose condition held
Hits == {n \in 1..Len(last.colliders) : Hit(n)}

\* the last update was made against a list of colliders
SomeColliders == last.index # 0 /\ ~last.skipped /\ Len(last.colliders) >= 1

\* C22: the tail an update stores is the one left by its colliders taken in
\* list order, each tested against the tail the colliders before it left:
\* the constrained tail when no condition held, and otherwise the push-out,
\* brought back to boneLength, of the last collider whose condition held,
\* applied to the tail left before it
C22_LastColliderWins ==
    SomeColliders =>
        /\ FinalTail = TailAfter(Len(last.colliders))
        /\ Hits = {} => FinalTail = last.constrained
        /\ \A n \in Hits :
              (\A m \in Hits : m <= n)
                  => FinalTail = PushOut(last.colliders[n], TailAfter(n - 1))

\* C22: of two colliders the first hit the constrained tail, and the second
\* hit the tail the first left although it did not reach the constrained
\* tail; the stored tail is the second's push-out and not the first's
C22_Witness ==
    /\ SomeColliders
    /\ Len(last.colliders) = 2
    /\ Hit(1)
    /\ ~Triggered(last.colliders[2], last.constrained)
    /\ Hit(2)
    /\ FinalTail = PushOut(last.colliders[2], TailAfter(1))
    /\ FinalTail # TailAfter(1)

\* what a spring node captured at construction
RestCapture(logic) ==
    [localRotation |-> logic.localRotation, boneAxis |-> logic.boneAxis,
     boneLength |-> logic.boneLength]

\* the chains as the constructor built them
ConstructedSprings == constructSprings(ext, constructColliderGroups(ext), options)

\* the spring nodes the constructor's setup built on the authored scene
ConstructedNodes(i) ==
    SpringSetup(ConstructedSprings[i], [n \in Nodes |-> RestPosition(n)],
                [n \in Nodes |-> QIdentity])

\* C23: no step of a frame changes the rest local rotation, boneAxis or
\* boneLength of a spring node, and as long as the application has moved
\* no node they are the values captured at construction, whatever
\* rotation the updates have written to the node
C23_RestCaptureKept ==
    /\ [][phase = "running" =>
            \A i \in DOMAIN verlets : \A k \in 1..Len(verlets[i]) :
                RestCapture(verlets'[i][k]) = RestCapture(verlets[i][k])]_vars
    /\ [](moves = 0 =>
            \A i \in DOMAIN verlets : \A k \in 1..Len(verlets[i]) :
                RestCapture(verlets[i][k]) = RestCapture(ConstructedNodes(i)[k]))

\* C23: after two frames the node hair1 has another rotation than at
\* construction, which its spring node still holds as rest local rotation
C23_Witness ==
    /\ frames = 2
    /\ phase = "resolved"
    /\ moves = 0
    /\ verlets[1][1].transform = "hair1"
    /\ rotationQuaternion["hair1"] # QIdentity
    /\ verlets[1][1].localRotation = QIdentity

\* the fields of a spring node other than the two tails
OtherFields(logic) == [logic EXCEPT !.currentTail = Zero3, !.prevTail = Zero3]

\* the fields of a spring node other than the two tails and the center
\* position read at the update
FixedFields(logic) ==
    [logic EXCEPT !.currentTail = Zero3, !.prevTail = Zero3, !.centerAbsolutePos = Zero3]

Converted(v) == Vec(0 - v.x, v.y, 0 - v.z)

\* C25 as stated: every collider offset the controller holds is the
\* configured offset with X and Z negated, and the gravity direction of
\* every chain is the given one with X and Z negated (the authored one
\* normalised as well), the one given in the construction options included
C25_Original ==
    /\ \A g \in 1..Len(colliderGroups) : \A j \in 1..Len(colliderGroups[g].colliders) :
          colliderGroups[g].colliders[j].offset
              = Converted(ext.colliderGroups[g].colliders[j].offset)
    /\ \A i \in 1..Len(springs) :
          springs[i].gravityDir =
              IF options.gravityDir # <<>> THEN Converted(options.gravityDir[1])
              ELSE Normalize(Converted(ext.boneGroups[i].gravityDir))

\* C26 as stated: the gravity direction of every chain has length 1
C26_Original ==
    \A i \in 1..Len(springs) : LengthSquared(springs[i].gravityDir) = Scale * Scale

\* the center position the last update read, and the one the spring node
\* held before it (read when its tails were last written)
CenterNow == CenterPosition(position, rotationQuaternion, springs[last.spring].center)
CenterBefore == Previous.centerAbsolutePos

\* how far the center moved between the two
CenterShift == VSub(CenterNow, CenterBefore)

\* the world tails as they were when they were written
CurrentTailWritten == VAdd(CenterBefore, Previous.currentTail)
PrevTailWritten == VAdd(CenterBefore, Previous.prevTail)

\* C27: an update that was not skipped stores its tails as the world tails
\* minus the center's absolute position at that time (the world tails
\* themselves without a center); the tails it read at its start are the
\* world tails as written, both shifted by the center's move since then, so
\* that the inertia term is that of the stored tails and the tail before
\* the length constraint is the written tail, shifted, plus the terms of
\* the Verlet step
C27_CenterRelative ==
    (last.index # 0 /\ ~last.skipped /\ VFinite(CenterNow)) =>
        /\ Updated.currentTail = VSub(TailAfter(Len(last.colliders)), CenterNow)
        /\ Updated.prevTail = VSub(last.candidate, CenterNow)
        /\ springs[last.spring].center = NoNode =>
              /\ Updated.currentTail = TailAfter(Len(last.colliders))
              /\ Updated.prevTail = last.candidate
        /\ last.candidate =
              VAdd(VAdd(VAdd(VAdd(CurrentTailWritten, CenterShift),
                             multiplyByFloat(VSub(VAdd(CurrentTailWritten, CenterShift),
                                                  VAdd(PrevTailWritten, CenterShift)),
                                             Scale - DragForceUsed)),
                        multiplyByFloat(RestAxisWorld, StiffnessForceUsed)),
                   ExternalUsed)
        /\ VFinite(Previous.currentTail) /\ VFinite(Previous.prevTail) =>
              VSub(VAdd(CurrentTailWritten, CenterShift), VAdd(PrevTailWritten, CenterShift))
                  = VSub(Previous.currentTail, Previous.prevTail)

\* C27: a node in motion, with a center that has moved since its tails were
\* written, was updated
C27_Witness ==
    /\ last.index # 0
    /\ ~last.skipped
    /\ springs[last.spring].center # NoNode
    /\ CenterShift # Zero3
    /\ CenterBefore # Zero3
    /\ Previous.currentTail # Previous.prevTail

\* the group built from configuration entry g (counted from 1)
BuiltFrom(g) ==
    /\ colliderGroups[g].transform = getBone(ext.colliderGroups[g].node)
    /\ Len(colliderGroups[g].colliders) = Len(ext.colliderGroups[g].colliders)
    /\ \A j \in 1..Len(colliderGroups[g].colliders) :
          /\ colliderGroups[g].colliders[j].radius = ext.colliderGroups[g].colliders[j].radius
          /\ colliderGroups[g].colliders[j].offset
                = Converted(ext.colliderGroups[g].colliders[j].offset)

\* C28: the controller's list of collider groups has one entry per
\* configured group, entry g built from configuration entry g; a chain's
\* reference with configured index g inside the list selects that entry,
\* and one outside the list selects no group, the chain being built all the
\* same
C28_GroupsByIndex ==
    /\ Len(colliderGroups) = Len(ext.colliderGroups)
    /\ \A g \in 1..Len(colliderGroups) : BuiltFrom(g)
    /\ ~disposed => Len(springs) = Len(ext.boneGroups)
    /\ \A i \in 1..Len(springs) :
          /\ Len(springs[i].colliderGroups) = Len(ext.boneGroups[i].colliderGroups)
          /\ \A k \in 1..Len(springs[i].colliderGroups) :
                IF /\ ext.boneGroups[i].colliderGroups[k] >= 0
                   /\ ext.boneGroups[i].colliderGroups[k] < Len(ext.colliderGroups)
                THEN springs[i].colliderGroups[k] = ext.boneGroups[i].colliderGroups[k] + 1
                ELSE springs[i].colliderGroups[k] = 0

\* C28: with one configured collider group, the chain that refers to index
\* 0 holds the group and the chain that refers to index 1 holds none, and
\* was updated against no collider
C28_Witness ==
    /\ Len(ext.colliderGroups) = 1
    /\ Len(springs) = 2
    /\ ext.boneGroups[1].colliderGroups = <<0>>
    /\ springs[1].colliderGroups = <<1>>
    /\ ext.boneGroups[2].colliderGroups = <<1>>
    /\ springs[2].colliderGroups = <<0>>
    /\ last.index # 0
    /\ last.spring = 2
    /\ last.colliders = <<>>

\* the spring node as the run started, at its rest pose
RestStart == call.verlets[1][1]

\* C29: from the rest pose (tail at boneLength along the rest axis as the
\* static parent carries it, prevTail = currentTail), without external
\* force and colliders, every update leaves currentTail where it was, and
\* the rotation it writes to the node is the rest local rotation
C29_RestFixedPoint ==
    /\ verlets[1][1].currentTail = RestStart.currentTail
    /\ rotationQuaternion[RestStart.transform] = RestStart.localRotation
    /\ frames >= 1 =>
          /\ ~last.skipped
          /\ last.colliders = <<>>
          /\ ExternalUsed = Zero3
          /\ last.constrained = RestPoseTail(RestStart, position, call.rotationQuaternion)

\* C29: four updates made with a stiffness force, under a rotated parent,
\* on a node with a rest rotation other than the identity
C29_Witness ==
    /\ frames = 4
    /\ StiffnessForceUsed > 0
    /\ DragForceUsed = 400
    /\ rotationQuaternion["head"] # QIdentity
    /\ RestStart.localRotation # QIdentity
    /\ last.candidate # last.constrained

\* collider n of the last update's list has a combined radius r with
\* r * r < 0.02
SmallCollider(n) ==
    (Previous.radius + last.colliders[n].radius)
        * (Previous.radius + last.colliders[n].radius) < (2 * Scale * Scale) \div 100

====
